---- MODULE Spec2Model ----
(***************************************************************************)
(* The CRT trading loop of src/exness_crt_trader.py: the three-candle      *)
(* range/sweep/confirm detector, the order-block entry locator, the        *)
(* stop/target/lot calculator, the trade gate and the split-TP order       *)
(* lifecycle with its breakeven watch.                                     *)
(*                                                                         *)
(* Prices are integers in cents (1.00 price unit = 100).  Candle levels    *)
(* of the entry timeframe are multiples of 10 cents, so that the 10% wick  *)
(* offset of the raw stop is a whole number of cents; range levels are     *)
(* multiples of 100 cents, so that the range midpoint is one too.  Lots    *)
(* are integers in hundredths of a lot (0.01 lot = 1); an unrounded lot    *)
(* size is the pair <<n, d>> standing for n/d hundredths.                  *)
(*                                                                         *)
(* The script computes in binary doubles.  A double differs from the exact *)
(* value it stands for by a rounding error far below a cent, so a          *)
(* comparison of two doubles follows the exact values whenever these       *)
(* differ.  Where the exact values agree (a stop exactly min_stop from the *)
(* price read, a stop exactly at the entry price, a ratio of exactly 2, a  *)
(* lot exactly half-way between two hundredths) the outcome follows the    *)
(* rounding errors, and the model takes it as an input: strict, dust, low  *)
(* and up below.                                                           *)
(***************************************************************************)
EXTENDS Integers, Sequences, FiniteSets

VARIABLES
    pc,               \* position of the script: "loop", "sleep", "h1", "m5", "risk", "watch", "crashed", "calc"
    trades_today,     \* line 79
    last_trade_day,   \* line 80, None until the first cycle
    last_trade_time,  \* line 127, None until the first entry signal
    price,            \* module-level name bound at lines 218/227, Unbound before
    min_stop,         \* line 132
    direction,        \* line 170
    crt_high,         \* line 160
    crt_low,          \* line 161
    h1,               \* the three hourly candles of this cycle (line 150)
    entry_candle,     \* line 184..192
    plan,             \* raw_sl, sl, tp1, tp2, risk, rr1, rr2, lot_size, half_lot (lines 213-239)
    orders,           \* requests handed to order_send in this cycle (lines 276-277)
    results,          \* retcodes of the two order_send calls
    modifications,    \* SLTP requests sent by move_sl_to_breakeven in this cycle
    outcome,          \* how the last finished cycle ended
    broker_day,       \* line 131
    cycle_start,      \* what the head of the cycle left: whether get_broker_time had no tick, whether the reset of lines 133-135 ran, the count after it, last_trade_time
    watch,            \* the last poll of the watch loop, the gateway's answer to the SLTP request and the message of line 300
    calc              \* input and result of one application of a calculator function

vars == << pc, trades_today, last_trade_day, last_trade_time, price, min_stop,
           direction, crt_high, crt_low, h1, entry_candle, plan, orders, results,
           modifications, outcome, broker_day, cycle_start, watch, calc >>

(***************************************************************************)
(* Python values that are not numbers.                                     *)
(***************************************************************************)
None == 0 - 1       \* Python's None where a number is expected
Unbound == 0 - 2    \* a module-level name that no statement has bound yet
NoCandle == [time |-> None, open |-> None, high |-> None, low |-> None, close |-> None]
NoPlan == [raw_sl |-> None]
NoH1 == << >>
NoCalc == [fn |-> "none"]
NoWatch == [tp1_leg |-> "none", pos |-> "none", retcode |-> "none", message |-> "none"]
NoCycle == [no_tick |-> FALSE, day_reset |-> FALSE, trades_today |-> None,
            last_trade_time |-> None]

(***************************************************************************)
(* Configuration (lines 13-22) and literals of the loop.                   *)
(***************************************************************************)
SESSION_HOURS == {1, 5, 9, 13, 15, 18, 21}
USE_ORDER_BLOCK == TRUE
USE_POWER_OF_THREE == TRUE
MAX_TRADES_PER_DAY == 3
MIN_RR == 2                \* 2.0 at line 241
MAGIC_TP1 == 123456
MAGIC_TP2 == 123457
MIN_LOT == 1               \* 0.01 lot, in hundredths
FALLBACK_MIN_STOP == 100   \* 1.0 price unit, in cents
FALLBACK_POINT == 1        \* 0.01 price unit, in cents
FALLBACK_BALANCE == 10000
FALLBACK_CONTRACT_SIZE == 100
LOT_CONTRACT_SIZE == 100   \* the literal 100 of calculate_lot_size
RISK_DIVISOR == 100        \* RISK_PER_TRADE = 0.01 = 1/100; also the cents of a price unit
WICK_DIVISOR == 10         \* the factor 0.1 of the raw stop = 1/10

(***************************************************************************)
(* Bounds of the model.                                                    *)
(***************************************************************************)
MaxDay == 2        \* broker days 1..MaxDay
MaxTime == 3       \* open times of the latest entry-timeframe candle, 1..MaxTime
M5Count == 2       \* candles in the fetched entry-timeframe window (the code asks for 10)

Abs(x) == IF x < 0 THEN 0 - x ELSE x
Min(a, b) == IF a < b THEN a ELSE b
Max(a, b) == IF a > b THEN a ELSE b

(***************************************************************************)
(* get_min_stop_level, lines 68-76.  info is NoInfo (symbol_info returned  *)
(* None) or a record; stops_level may be None, point may be 0.             *)
(***************************************************************************)
NoInfo == [stops_level |-> None, point |-> None, trade_contract_size |-> None]
GetMinStopLevel(info) ==
    IF info = NoInfo \/ info.stops_level = None
    THEN FALLBACK_MIN_STOP
    ELSE LET point == IF info.point # 0 THEN info.point ELSE FALLBACK_POINT
             ms == info.stops_level * point
         IN IF ms > 0 THEN ms ELSE FALLBACK_MIN_STOP

(***************************************************************************)
(* Range-sweep detector, lines 156-176.  w = <<range, sweep, confirm>>.    *)
(***************************************************************************)
SweepedHigh(w) == w[2].high > w[1].high
SweepedLow(w) == w[2].low < w[1].low
\* mutant: the confirm close may sit on a range bound
ConfirmInRangeInclusive(w) == w[1].low <= w[3].close /\ w[3].close <= w[1].high
ConfirmInRange(w) == w[1].low < w[3].close /\ w[3].close < w[1].high
PatternFound(w) == (SweepedHigh(w) \/ SweepedLow(w)) /\ ConfirmInRange(w)
\* mutant: the low sweep is tested first
PatternDirectionLowFirst(w) == IF SweepedLow(w) THEN "BUY" ELSE "SELL"
PatternDirection(w) == IF SweepedHigh(w) THEN "SELL" ELSE "BUY"
\* the Signal of the cycle: the direction, or "NONE" when the cycle is skipped
DetectorIn(power_of_three, w) ==
    IF power_of_three
    THEN IF PatternFound(w) THEN PatternDirection(w) ELSE "NONE"
    ELSE "None"
Detector(w) == DetectorIn(USE_POWER_OF_THREE, w)
\* line 157, or line 173 in simple mode
RangeCandleIn(power_of_three, w) == IF power_of_three THEN w[1] ELSE w[Len(w)]
RangeCandle(w) == RangeCandleIn(USE_POWER_OF_THREE, w)

(***************************************************************************)
(* find_order_block, lines 50-58: the last candle of the window whose      *)
(* colour opposes the direction.                                           *)
(***************************************************************************)
SetMax(S) == CHOOSE x \in S : \A y \in S : y <= x
SetMin(S) == CHOOSE x \in S : \A y \in S : x <= y
\* mutant: a candle that closes at its open counts as well
OrderBlockRowsWithFlat(df, dir) ==
    IF dir = "BUY"
    THEN {i \in 1..Len(df) : df[i].close <= df[i].open}
    ELSE {i \in 1..Len(df) : df[i].close >= df[i].open}
OrderBlockRows(df, dir) ==
    IF dir = "BUY"
    THEN {i \in 1..Len(df) : df[i].close < df[i].open}
    ELSE {i \in 1..Len(df) : df[i].close > df[i].open}
FindOrderBlock(df, dir) ==
    IF OrderBlockRows(df, dir) = {} THEN NoCandle ELSE df[SetMax(OrderBlockRows(df, dir))]

(***************************************************************************)
(* Entry search, lines 184-202.                                            *)
(***************************************************************************)
OrderBlockEntry(df, dir) ==
    LET ob == FindOrderBlock(df, dir)
        latest == df[Len(df)]
    IN IF ob = NoCandle THEN NoCandle
       ELSE IF dir = "BUY" /\ latest.low <= ob.low THEN latest
       ELSE IF dir = "SELL" /\ latest.high >= ob.high THEN latest
       ELSE NoCandle
ScanRows(df, dir, hi, lo) ==
    {i \in 2..Len(df) :
        \/ dir = "SELL" /\ df[i].high > hi /\ df[i].close < hi
        \/ dir = "BUY" /\ df[i].low < lo /\ df[i].close > lo}
ScanEntry(df, dir, hi, lo) ==
    IF ScanRows(df, dir, hi, lo) = {} THEN NoCandle ELSE df[SetMin(ScanRows(df, dir, hi, lo))]
FindEntryIn(use_order_block, df, dir, hi, lo) ==
    IF use_order_block THEN OrderBlockEntry(df, dir) ELSE ScanEntry(df, dir, hi, lo)
FindEntry(df, dir, hi, lo) == FindEntryIn(USE_ORDER_BLOCK, df, dir, hi, lo)

\* mutant: only an older candle is a duplicate
IsDuplicateStrict(t, last) == last # None /\ t < last
\* line 208: "if last_trade_time and entry_candle.name <= last_trade_time"
IsDuplicate(t, last) == last # None /\ t <= last

(***************************************************************************)
(* Stop, targets and reward:risk, lines 213-230.  p is the value the name  *)
(* price holds when the stop expression reads it.                          *)
(***************************************************************************)
RawSL(dir, c) ==
    IF dir = "SELL"
    THEN c.high + (c.high - c.close) \div WICK_DIVISOR
    ELSE c.low - (c.close - c.low) \div WICK_DIVISOR
\* lines 215/224.  strict: with the raw stop exactly min_stop from the price read, the
\* double price -/+ min_stop lies on the far side of the double raw_sl, the comparison
\* holds and the stop stays at raw_sl (4.6 + 0.3 = 4.8999999999999995 < 4.9)
StopLoss(dir, raw, p, ms, strict) ==
    IF dir = "SELL"
    THEN IF raw < p - ms \/ (raw = p - ms /\ strict) THEN Min(raw, p - ms) ELSE raw + ms
    ELSE IF raw > p + ms \/ (raw = p + ms /\ strict) THEN Max(raw, p + ms) ELSE raw - ms
TP1(hi, lo) == (hi + lo) \div 2
TP2(dir, hi, lo) == IF dir = "SELL" THEN lo ELSE hi
EntryPrice(dir, tick) == IF dir = "SELL" THEN tick.bid ELSE tick.ask
\* lines 219/228, "risk > 0".  risk is abs(price - sl) in whole cents; dust: with the
\* stop exactly at the entry price, the double abs(price - sl) is a rounding error
\* above 0 (2.6 - 0.3 = 2.3000000000000003 against an ask of 2.3: 4.4e-16)
RiskPositive(risk, dust) == risk > 0 \/ dust
\* lines 220-221/229-230.  A ratio is the pair <<numerator, denominator>>.  The
\* denominator 0 is a risk that is a rounding error: <<dist, 0>> with dist > 0 is a
\* double of the order of 1e15 or more, <<0, 0>> a rounding error over a rounding error
RR(dist, risk, dust) ==
    IF risk > 0 THEN << dist, risk >>
    ELSE IF RiskPositive(risk, dust) THEN << dist, 0 >>
    ELSE << 0, 1 >>
\* max(rr1, rr2); both ratios have the same denominator
MaxRR(a, b) ==
    IF a[1] * b[2] > b[1] * a[2] \/ (a[1] * b[2] = b[1] * a[2] /\ a[1] >= b[1]) THEN a ELSE b
\* mutant: the gate asks for a ratio of 1.0
RRTooLowLax(rr1, rr2, low) == MaxRR(rr1, rr2)[1] < MaxRR(rr1, rr2)[2]
\* line 241: max(rr1, rr2) < 2.0.  low: with a ratio of exactly 2 the double quotient
\* lies below 2.0 (2.4 / (3.6 - 2.4) = 1.9999999999999996)
RRTooLow(rr1, rr2, low) ==
    \/ MaxRR(rr1, rr2)[1] < MIN_RR * MaxRR(rr1, rr2)[2]
    \/ (MaxRR(rr1, rr2)[1] = MIN_RR * MaxRR(rr1, rr2)[2] /\ low)

(***************************************************************************)
(* round(x, 2) on the double that stands for n/d hundredths.  On a Python  *)
(* float a half-way case goes where the double lies; on a numpy.float64    *)
(* (every value computed from a DataFrame cell) round is rint(x * 100) /   *)
(* 100, which takes a product that is exactly half-way to the even         *)
(* neighbour.  up says that the half-way case goes up.                     *)
(***************************************************************************)
PyRound2(n, d, up) ==
    LET q == n \div d
        r == n % d
    IN IF 2 * r < d THEN q
       ELSE IF 2 * r > d THEN q + 1
       ELSE IF up THEN q + 1 ELSE q

(***************************************************************************)
(* Lot sizes.  balance is in whole price units, risk in cents.             *)
(***************************************************************************)
\* mutant: no floor at the minimum lot
CalculateLotSizeNoFloor(entry, sl, balance, up) ==
    IF Abs(entry - sl) = 0 THEN MIN_LOT
    ELSE PyRound2(balance * RISK_DIVISOR, Abs(entry - sl) * LOT_CONTRACT_SIZE, up)
\* calculate_lot_size, lines 114-123, with risk_pct = RISK_PER_TRADE
CalculateLotSize(entry, sl, balance, up) ==
    LET pip_risk == Abs(entry - sl)
    IN IF pip_risk = 0 THEN MIN_LOT
       ELSE Max(MIN_LOT, PyRound2(balance * RISK_DIVISOR, pip_risk * LOT_CONTRACT_SIZE, up))
\* lines 235-238: the unrounded lot size <<n, d>>, at least 0.01.  << MIN_LOT, 1 >> is
\* the Python float 0.01 of lines 237/238; a computed size is a numpy.float64.  With a
\* risk that is a rounding error the size is <<n, 0>>: a money amount over a rounding
\* error, of the order of 1e13 lots or more
LotSize(balance, risk, dust, contract_size) ==
    IF risk > 0
    THEN IF balance * RISK_DIVISOR >= MIN_LOT * risk * contract_size
         THEN << balance * RISK_DIVISOR, risk * contract_size >>
         ELSE << MIN_LOT, 1 >>
    ELSE IF RiskPositive(risk, dust) /\ balance > 0
         THEN << balance * RISK_DIVISOR, 0 >>
         ELSE << MIN_LOT, 1 >>
\* stands for the half of a lot size <<n, 0>>, in hundredths: more than any volume
\* the model counts
HUGE_LOT == 1000000000
\* line 239: half_lot = round(lot_size / 2, 2).  Half the Python float 0.01 lies above
\* 0.005 and goes up to 0.01; half a numpy.float64 0.01 times 100 is exactly 0.5, which
\* rint takes to 0
HalfLot(lot, up) ==
    IF lot[2] = 0 THEN HUGE_LOT
    ELSE PyRound2(lot[1], 2 * lot[2], up \/ lot = << MIN_LOT, 1 >>)

(***************************************************************************)
(* What the gateways can answer.                                           *)
(***************************************************************************)
Days == 1..MaxDay
Hours == {0, 1, 2, 21, 23}    \* hours of the day on both sides of SESSION_HOURS
M5Levels == {200, 300}
Bids == {290, 330}
\* the ask lies 0.10 above the bid
Ticks == {[bid |-> b, ask |-> b + 10] : b \in Bids}
SymbolInfos ==
    {NoInfo}
    \cup [stops_level : {None, 0, 20, 30}, point : {1}, trade_contract_size : {100}]
    \cup [stops_level : {30}, point : {0}, trade_contract_size : {100}]
\* what a symbol_info call of line 234 can answer
ContractInfos == {NoInfo, [stops_level |-> 30, point |-> 1, trade_contract_size |-> 100]}
\* line 234 asks symbol_info twice: in the condition and, when that answered an info,
\* again for the contract size.  The answers it consumes, in order
ContractAnswers ==
    {<< NoInfo >>} \cup {<< a, b >> : a \in ContractInfos \ {NoInfo}, b \in ContractInfos}
\* the second call answered None, whose .trade_contract_size is an AttributeError
ContractSizeFails(infos) == infos[1] # NoInfo /\ infos[2] = NoInfo
ContractSize(infos) ==
    IF infos[1] = NoInfo THEN FALLBACK_CONTRACT_SIZE ELSE infos[2].trade_contract_size
\* the contract sizes line 234 can yield
ContractSizes == {ContractSize(infos) : infos \in {i \in ContractAnswers : ~ContractSizeFails(i)}}
Balances == {50}
NoAccount == [balance |-> None]
Accounts == {NoAccount} \cup [balance : Balances]
Retcodes == {"DONE", "REJECT"}
\* order_send answers a result with a retcode, or None
NoResult == "None"
OrderAnswers == Retcodes \cup {NoResult}

\* copy_rates_from_pos answers None (ok = FALSE) or some rows
NoRates == [ok |-> FALSE, rows |-> << >>]
\* the fields the detector reads of the range, sweep and confirm candles
RangeCandles == {[high |-> 400, low |-> 200], [high |-> 300, low |-> 100]}
\* sweep candles whose high and low lie beyond a bound of a range, on it, and inside
SweepCandles == [high : {400, 500}, low : {100, 200}]
\* confirm candles that close inside a range, on a bound of it, and outside
ConfirmCandles == [close : {100, 200, 300, 400}]
H1Windows == {<< r, s, c >> : r \in RangeCandles, s \in SweepCandles, c \in ConfirmCandles}
\* answers of copy_rates_from_pos with fewer than three hourly candles, or none at all
ShortH1Rates ==
    {NoRates} \cup {[ok |-> TRUE, rows |-> SubSeq(w, 1, n)] : w \in H1Windows, n \in 0..2}
\* bullish, bearish and flat candles
M5Candles ==
    {c \in [open : M5Levels, high : M5Levels, low : M5Levels, close : M5Levels] :
        /\ c.low <= c.open /\ c.low <= c.close /\ c.open <= c.high /\ c.close <= c.high
        /\ (c.open # c.close \/ c.low = c.high)}
\* the window whose first candle opens at t: consecutive open times
Stamp(cs, t) ==
    [i \in 1..Len(cs) |->
        [time |-> t + i - 1, open |-> cs[i].open, high |-> cs[i].high,
         low |-> cs[i].low, close |-> cs[i].close]]
M5Windows == {Stamp(cs, t) : cs \in [1..M5Count -> M5Candles], t \in 1..MaxTime}

\* get_rates, lines 40-47: None unless count rows came back
GetRates(rates, count) ==
    IF ~rates.ok \/ Len(rates.rows) < count THEN NoRates ELSE rates

\* get_broker_time, lines 61-65: the tick's time, or the local clock without a tick
NoTime == [day |-> None, hour |-> None]
Clock == [day : Days, hour : Hours]
GetBrokerTime(tick_time, now) == IF tick_time = NoTime THEN now ELSE tick_time

TypeOK ==
    /\ pc \in {"loop", "sleep", "h1", "m5", "risk", "watch", "crashed", "calc"}
    /\ trades_today \in Nat
    /\ last_trade_day \in Days \cup {None}
    /\ price \in Int

(***************************************************************************)
(* Start of a cycle, lines 130-148.                                        *)
(***************************************************************************)
\* lines 133-135: the count after the daily reset
TradesAfterReset(day) == IF last_trade_day # day THEN 0 ELSE trades_today
\* line 136
CapReached(n) == n >= MAX_TRADES_PER_DAY
\* line 140
InSession(hour) == hour \in SESSION_HOURS

\* mutant: the script ends where it should sleep
SleepExit ==
    /\ pc = "sleep"
    /\ pc' = "crashed"
    /\ UNCHANGED << trades_today, last_trade_day, last_trade_time, price, min_stop,
                    direction, crt_high, crt_low, h1, entry_candle, plan, orders,
                    results, modifications, outcome, broker_day, cycle_start, watch,
                    calc >>
\* time.sleep(...) and continue: the values of the finished cycle are dead, every
\* cycle assigns them again before it reads them; all but price
Sleep ==
    /\ pc = "sleep"
    /\ pc' = "loop"
    /\ outcome' = "idle"
    /\ min_stop' = None
    /\ direction' = "None"
    /\ crt_high' = None
    /\ crt_low' = None
    /\ h1' = NoH1
    /\ entry_candle' = NoCandle
    /\ plan' = NoPlan
    /\ orders' = << >>
    /\ results' = << >>
    /\ modifications' = << >>
    /\ cycle_start' = NoCycle
    /\ watch' = NoWatch
    /\ UNCHANGED << trades_today, last_trade_day, last_trade_time, price, broker_day,
                    calc >>

\* mutant: the head of the cycle forgets the last entry time
BeginCycleForgetful(tick_time, now, info) ==
    LET day == GetBrokerTime(tick_time, now).day IN
    /\ pc = "loop"
    /\ broker_day' = day
    /\ min_stop' = GetMinStopLevel(info)
    /\ trades_today' = TradesAfterReset(day)
    /\ last_trade_day' = day
    /\ last_trade_time' = None
    /\ cycle_start' = [no_tick |-> tick_time = NoTime,
                       day_reset |-> last_trade_day # day,
                       trades_today |-> TradesAfterReset(day),
                       last_trade_time |-> last_trade_time]
    /\ UNCHANGED << price, direction, crt_high, crt_low, h1,
                    entry_candle, plan, orders, results, modifications, watch,
                    calc >>
\* lines 130-135, common to every cycle.  The day is whatever get_broker_time reports:
\* the time of the last tick, or the local clock when symbol_info_tick answered None,
\* later or earlier than the day of the cycle before
BeginCycle(tick_time, now, info) ==
    LET day == GetBrokerTime(tick_time, now).day IN
    /\ pc = "loop"
    /\ broker_day' = day
    /\ min_stop' = GetMinStopLevel(info)
    /\ trades_today' = TradesAfterReset(day)
    /\ last_trade_day' = day
    /\ cycle_start' = [no_tick |-> tick_time = NoTime,
                       day_reset |-> last_trade_day # day,
                       trades_today |-> TradesAfterReset(day),
                       last_trade_time |-> last_trade_time]
    /\ UNCHANGED << last_trade_time, price, direction, crt_high, crt_low, h1,
                    entry_candle, plan, orders, results, modifications, watch,
                    calc >>

\* lines 136-139
DailyCap ==
    \E now \in Clock : \E tick_time \in {NoTime, now}, info \in SymbolInfos :
        LET day == GetBrokerTime(tick_time, now).day IN
        /\ BeginCycle(tick_time, now, info)
        /\ CapReached(TradesAfterReset(day))
        /\ outcome' = "cap"
        /\ pc' = "sleep"

\* lines 140-143
OffSession ==
    \E now \in Clock : \E tick_time \in {NoTime, now}, info \in SymbolInfos :
        LET day == GetBrokerTime(tick_time, now).day
            hour == GetBrokerTime(tick_time, now).hour IN
        /\ BeginCycle(tick_time, now, info)
        /\ ~CapReached(TradesAfterReset(day))
        /\ ~InSession(hour)
        /\ outcome' = "session"
        /\ pc' = "sleep"

\* lines 145-148; is_news_blocking() answered True
NewsBlock ==
    \E now \in Clock : \E tick_time \in {NoTime, now}, info \in SymbolInfos :
        LET day == GetBrokerTime(tick_time, now).day
            hour == GetBrokerTime(tick_time, now).hour IN
        /\ BeginCycle(tick_time, now, info)
        /\ ~CapReached(TradesAfterReset(day))
        /\ InSession(hour)
        /\ outcome' = "news"
        /\ pc' = "sleep"

\* the cycle passes the three checks and goes on to fetch the hourly candles
StartCycle ==
    \E now \in Clock : \E tick_time \in {NoTime, now}, info \in SymbolInfos :
        LET day == GetBrokerTime(tick_time, now).day
            hour == GetBrokerTime(tick_time, now).hour IN
        /\ BeginCycle(tick_time, now, info)
        /\ ~CapReached(TradesAfterReset(day))
        /\ InSession(hour)
        /\ outcome' = "running"
        /\ pc' = "h1"

(***************************************************************************)
(* Hourly candles and the detector, lines 150-176.                         *)
(***************************************************************************)
H1Frame == UNCHANGED << trades_today, last_trade_day, last_trade_time, price, min_stop,
                        entry_candle, plan, orders, results, modifications, broker_day,
                        cycle_start, watch, calc >>

\* mutant: missing hourly candles end the script
NoH1DataFatal ==
    /\ pc = "h1"
    /\ outcome' = "no_h1"
    /\ pc' = "crashed"
    /\ UNCHANGED << direction, crt_high, crt_low, h1 >>
    /\ H1Frame
\* lines 150-154
NoH1Data ==
    \E rates \in ShortH1Rates :
        /\ pc = "h1"
        /\ GetRates(rates, 3) = NoRates
        /\ outcome' = "no_h1"
        /\ pc' = "sleep"
        /\ UNCHANGED << direction, crt_high, crt_low, h1 >>
        /\ H1Frame

NoPattern ==
    \E w \in H1Windows :
        /\ pc = "h1"
        /\ Detector(w) = "NONE"
        /\ h1' = w
        /\ crt_high' = RangeCandle(w).high
        /\ crt_low' = RangeCandle(w).low
        /\ outcome' = "no_pattern"
        /\ pc' = "sleep"
        /\ UNCHANGED direction
        /\ H1Frame

Detect ==
    \E w \in H1Windows :
        /\ pc = "h1"
        /\ Detector(w) # "NONE"
        /\ h1' = w
        /\ crt_high' = RangeCandle(w).high
        /\ crt_low' = RangeCandle(w).low
        /\ direction' = Detector(w)
        /\ pc' = "m5"
        /\ UNCHANGED outcome
        /\ H1Frame

(***************************************************************************)
(* Entry candles, the locator and the duplicate check, lines 178-211.      *)
(***************************************************************************)
M5Frame == UNCHANGED << trades_today, last_trade_day, price, min_stop, direction,
                        crt_high, crt_low, plan, orders, results, modifications,
                        broker_day, cycle_start, watch, calc >>

NoM5Data ==
    \E rates \in {NoRates, [ok |-> TRUE, rows |-> << >>]} :
        /\ pc = "m5"
        /\ GetRates(rates, M5Count) = NoRates
        /\ h1' = NoH1
        /\ outcome' = "no_m5"
        /\ pc' = "sleep"
        /\ UNCHANGED << entry_candle, last_trade_time >>
        /\ M5Frame

NoEntry ==
    \E df \in M5Windows :
        /\ pc = "m5"
        /\ FindEntry(df, direction, crt_high, crt_low) = NoCandle
        /\ h1' = NoH1
        /\ outcome' = "no_entry"
        /\ pc' = "sleep"
        /\ UNCHANGED << entry_candle, last_trade_time >>
        /\ M5Frame

Duplicate ==
    \E df \in M5Windows :
        LET c == FindEntry(df, direction, crt_high, crt_low) IN
        /\ pc = "m5"
        /\ c # NoCandle
        /\ IsDuplicate(c.time, last_trade_time)
        /\ h1' = NoH1
        /\ entry_candle' = c
        /\ outcome' = "duplicate"
        /\ pc' = "sleep"
        /\ UNCHANGED last_trade_time
        /\ M5Frame

Entry ==
    \E df \in M5Windows :
        LET c == FindEntry(df, direction, crt_high, crt_low) IN
        /\ pc = "m5"
        /\ c # NoCandle
        /\ ~IsDuplicate(c.time, last_trade_time)
        /\ h1' = NoH1
        /\ entry_candle' = c
        /\ last_trade_time' = c.time
        /\ pc' = "risk"
        /\ UNCHANGED outcome
        /\ M5Frame

(***************************************************************************)
(* Stop, targets, lot size, the reward:risk gate and the two orders,       *)
(* lines 212-288.                                                          *)
(***************************************************************************)
NoTick == [bid |-> None, ask |-> None]
\* where the doubles of a plan can fall when the exact values agree
Roundings == [strict : BOOLEAN, dust : BOOLEAN, low : BOOLEAN, up : BOOLEAN]
\* the exact values on which an outcome of Roundings bears
ClampTie(dir, raw, p, ms) == IF dir = "SELL" THEN raw = p - ms ELSE raw = p + ms
RatioTie(rr1, rr2) == MaxRR(rr1, rr2)[1] = MIN_RR * MaxRR(rr1, rr2)[2]
HalfLotTie(lot) ==
    lot[2] > 0 /\ lot # << MIN_LOT, 1 >> /\ 2 * (lot[1] % (2 * lot[2])) = 2 * lot[2]
\* lines 213-239; p is the value of the name price at line 215/224
MakePlan(dir, c, p, tick, ms, hi, lo, account, cs, fp) ==
    LET raw == RawSL(dir, c)
        sl == StopLoss(dir, raw, p, ms, fp.strict)
        entry == EntryPrice(dir, tick)
        risk == Abs(entry - sl)
        balance == IF account = NoAccount THEN FALLBACK_BALANCE ELSE account.balance
        lot == LotSize(balance, risk, fp.dust, cs)
        rr1 == RR(Abs(entry - TP1(hi, lo)), risk, fp.dust)
        rr2 == RR(Abs(entry - TP2(dir, hi, lo)), risk, fp.dust)
    IN [raw_sl |-> raw, sl |-> sl, tp1 |-> TP1(hi, lo), tp2 |-> TP2(dir, hi, lo),
        price_read |-> p, price |-> entry, risk |-> risk,
        risk_positive |-> RiskPositive(risk, fp.dust),
        rr1 |-> rr1, rr2 |-> rr2, rr_too_low |-> RRTooLow(rr1, rr2, fp.low),
        balance |-> balance, contract_size |-> cs,
        lot_size |-> lot, half_lot |-> HalfLot(lot, fp.up)]
\* the outcomes that bear on a plan; every other one gives one of the same plans
PlanRoundings(dir, c, p, tick, ms, hi, lo, account, cs) ==
    {fp \in Roundings :
        LET pl == MakePlan(dir, c, p, tick, ms, hi, lo, account, cs, fp) IN
        /\ fp.strict => ClampTie(dir, pl.raw_sl, p, ms)
        /\ fp.dust => pl.risk = 0
        /\ fp.low => RatioTie(pl.rr1, pl.rr2)
        /\ fp.up => HalfLotTie(pl.lot_size)}
\* the plans lines 213-239 can make of the entry signal of this cycle
Plans ==
    UNION {{MakePlan(direction, entry_candle, price, tick, min_stop, crt_high, crt_low,
                     account, cs, fp) :
                fp \in PlanRoundings(direction, entry_candle, price, tick, min_stop,
                                     crt_high, crt_low, account, cs)} :
            tick \in Ticks, account \in Accounts, cs \in ContractSizes}
\* lines 247-275
Request(dir, volume, p, sl, tp, magic) ==
    [type |-> dir, volume |-> volume, price |-> p, sl |-> sl, tp |-> tp, magic |-> magic]
Request1(dir, pl) == Request(dir, pl.half_lot, pl.price, pl.sl, pl.tp1, MAGIC_TP1)
Request2(dir, pl) == Request(dir, pl.half_lot, pl.price, pl.sl, pl.tp2, MAGIC_TP2)
\* line 288
CountTrade(n, r1, r2) == n + 1
\* mutant: one leg is enough
BothDoneEither(r1, r2) == r1 = "DONE" \/ r2 = "DONE"
\* line 290
BothDone(r1, r2) == r1 = "DONE" /\ r2 = "DONE"

RiskFrame == UNCHANGED << last_trade_day, last_trade_time, min_stop, direction, crt_high,
                          crt_low, h1, entry_candle, modifications, broker_day,
                          cycle_start, watch, calc >>

\* line 215/224 reads the name price, which no statement has bound yet
NameError ==
    /\ pc = "risk"
    /\ price = Unbound
    /\ outcome' = "NameError"
    /\ pc' = "crashed"
    /\ UNCHANGED << trades_today, price, plan, orders, results >>
    /\ RiskFrame

\* line 218/227: symbol_info_tick answered None, whose .bid/.ask is an AttributeError
TickUnavailable ==
    /\ pc = "risk"
    /\ price # Unbound
    /\ outcome' = "AttributeError"
    /\ pc' = "crashed"
    /\ UNCHANGED << trades_today, price, plan, orders, results >>
    /\ RiskFrame

\* line 234: the tick was read and price bound at line 218/227, then the second
\* symbol_info call answered None
ContractInfoGone ==
    /\ pc = "risk"
    /\ price # Unbound
    /\ \E tick \in Ticks, infos \in ContractAnswers :
        /\ ContractSizeFails(infos)
        /\ price' = EntryPrice(direction, tick)
        /\ outcome' = "AttributeError234"
        /\ pc' = "crashed"
        /\ UNCHANGED << trades_today, plan, orders, results >>
        /\ RiskFrame

\* lines 241-244
RRSkip ==
    /\ pc = "risk"
    /\ price # Unbound
    /\ \E pl \in Plans :
        /\ pl.rr_too_low
        /\ plan' = pl
        /\ price' = pl.price
        /\ outcome' = "rr_low"
        /\ pc' = "sleep"
        /\ UNCHANGED << trades_today, orders, results >>
        /\ RiskFrame

\* lines 276-283: order_send answered None for a leg.  Both requests were sent; reading
\* result1.retcode at line 278, or result2.retcode at line 283, is an AttributeError,
\* and line 288 is not reached
OrderSendNone ==
    /\ pc = "risk"
    /\ price # Unbound
    /\ \E pl \in Plans : \E r1 \in OrderAnswers, r2 \in OrderAnswers :
        /\ ~pl.rr_too_low
        /\ r1 = NoResult \/ r2 = NoResult
        /\ plan' = pl
        /\ price' = pl.price
        /\ orders' = << Request1(direction, pl), Request2(direction, pl) >>
        /\ results' = << r1, r2 >>
        /\ outcome' = (IF r1 = NoResult THEN "AttributeError278" ELSE "AttributeError283")
        /\ pc' = "crashed"
        /\ UNCHANGED trades_today
        /\ RiskFrame

\* lines 245-302 up to the watch loop, order_send answering a result for both legs
Submit ==
    /\ pc = "risk"
    /\ price # Unbound
    /\ \E pl \in Plans : \E r1 \in Retcodes, r2 \in Retcodes :
        /\ ~pl.rr_too_low
        /\ plan' = pl
        /\ price' = pl.price
        /\ orders' = << Request1(direction, pl), Request2(direction, pl) >>
        /\ results' = << r1, r2 >>
        /\ trades_today' = CountTrade(trades_today, r1, r2)
        /\ outcome' = "traded"
        /\ pc' = (IF BothDone(r1, r2) THEN "watch" ELSE "sleep")
        /\ RiskFrame

(***************************************************************************)
(* The breakeven watch, lines 291-300.                                     *)
(***************************************************************************)
TICKET_TP1 == "result1.order"
TICKET_TP2 == "result2.order"
\* mutant: the request names the TP1 leg
BreakevenRequestOnTP1(ticket, breakeven_price) ==
    [position |-> TICKET_TP1, sl |-> breakeven_price, tp |-> 0]
\* move_sl_to_breakeven, lines 103-111
BreakevenRequest(ticket, breakeven_price) ==
    [position |-> ticket, sl |-> breakeven_price, tp |-> 0]

\* positions_get still lists the TP1 leg: sleep and poll again
WatchOpen ==
    /\ pc = "watch"
    /\ watch' = [tp1_leg |-> "open", pos |-> "positions", retcode |-> "none",
                 message |-> "none"]
    /\ UNCHANGED << pc, trades_today, last_trade_day, last_trade_time, price, min_stop,
                    direction, crt_high, crt_low, h1, entry_candle, plan, orders,
                    results, modifications, outcome, broker_day, cycle_start,
                    calc >>

\* what positions_get can answer when "not pos" holds at line 295: the empty tuple for
\* a leg that is closed, None when the query failed, whatever the leg
EmptyPolls ==
    {[tp1_leg |-> "closed", pos |-> "empty"],
     [tp1_leg |-> "open", pos |-> "None"]}
\* line 300
BREAKEVEN_MESSAGE == "Moved SL to breakeven for TP2 position"

\* lines 295-300: positions_get answered nothing or None; the answer of order_send to
\* the SLTP request is dropped by move_sl_to_breakeven
WatchGone ==
    \E poll \in EmptyPolls, r \in Retcodes :
    /\ pc = "watch"
    /\ modifications' = << BreakevenRequest(TICKET_TP2, price) >>
    /\ watch' = [tp1_leg |-> poll.tp1_leg, pos |-> poll.pos, retcode |-> r,
                 message |-> BREAKEVEN_MESSAGE]
    /\ outcome' = "breakeven"
    /\ pc' = "sleep"
    /\ UNCHANGED << trades_today, last_trade_day, last_trade_time, price, min_stop,
                    direction, crt_high, crt_low, h1, entry_candle, plan, orders,
                    results, broker_day, cycle_start, calc >>

(***************************************************************************)
(* The script from its start: the state at line 129 after a successful     *)
(* attach.  No statement has bound price, so the first entry signal ends   *)
(* the process at line 215/224.                                            *)
(***************************************************************************)
InitLocals ==
    /\ pc = "loop"
    /\ trades_today = 0
    /\ last_trade_day = None
    /\ last_trade_time = None
    /\ min_stop = None
    /\ direction = "None"
    /\ crt_high = None
    /\ crt_low = None
    /\ h1 = NoH1
    /\ entry_candle = NoCandle
    /\ plan = NoPlan
    /\ orders = << >>
    /\ results = << >>
    /\ modifications = << >>
    /\ outcome = "idle"
    /\ broker_day = None
    /\ cycle_start = NoCycle
    /\ watch = NoWatch
    /\ calc = NoCalc

Init == InitLocals /\ price = Unbound

Next ==
    \/ Sleep
    \/ OffSession
    \/ NewsBlock
    \/ StartCycle
    \/ NoH1Data
    \/ NoPattern
    \/ Detect
    \/ NoM5Data
    \/ NoEntry
    \/ Entry
    \/ NameError

Spec == Init /\ [][Next]_vars

(***************************************************************************)
(* A widening of Spec.  No run of the script has the name price bound when *)
(* line 215/224 reads it, so under Spec lines 216-302 never run.           *)
(* SpecBound adds to the behaviours of Spec those of the same loop         *)
(* entered with price already bound to a tick price, in which the read     *)
(* finds a value and the rest of the loop body runs.  A property that      *)
(* holds under SpecBound holds of every run of the script; a violation     *)
(* that SpecBound reaches only with price bound at the start is not a run  *)
(* of the script and refutes nothing.                                      *)
(***************************************************************************)
StartPrices == {Unbound} \cup {EntryPrice(d, t) : d \in {"SELL", "BUY"}, t \in Ticks}
InitBound == InitLocals /\ price \in StartPrices

NextBound ==
    \/ Next
    \/ DailyCap
    \/ Duplicate
    \/ TickUnavailable
    \/ ContractInfoGone
    \/ RRSkip
    \/ OrderSendNone
    \/ Submit
    \/ WatchOpen
    \/ WatchGone

SpecBound == InitBound /\ [][NextBound]_vars

\* time.sleep returns: a sleeping script wakes up and starts the next iteration
Fairness == WF_vars(Sleep)
SpecFair == InitBound /\ [][NextBound]_vars /\ Fairness

(***************************************************************************)
(* The calculator functions applied to inputs of their own: the stop       *)
(* expression of lines 214-215/223-224 and calculate_lot_size.             *)
(***************************************************************************)
CalcPrices == {p \in 150..350 : p % 10 = 0}
CalcMinStops == {30, 100}
CalcBalances == {0, 50, 100, 250}
CalcEntries == {290, 330}
CalcStops == {130, 250, 290, 310, 330, 340}

InitCalc ==
    /\ pc = "calc"
    /\ trades_today = 0
    /\ last_trade_day = None
    /\ last_trade_time = None
    /\ price = Unbound
    /\ min_stop = None
    /\ direction = "None"
    /\ crt_high = None
    /\ crt_low = None
    /\ h1 = NoH1
    /\ entry_candle = NoCandle
    /\ plan = NoPlan
    /\ orders = << >>
    /\ results = << >>
    /\ modifications = << >>
    /\ outcome = "idle"
    /\ broker_day = None
    /\ cycle_start = NoCycle
    /\ watch = NoWatch
    /\ calc = NoCalc

CalcFrame == UNCHANGED << pc, trades_today, last_trade_day, last_trade_time, price, min_stop,
                          direction, crt_high, crt_low, h1, entry_candle, plan, orders,
                          results, modifications, outcome, broker_day, cycle_start,
                          watch >>

ApplyStopLoss ==
    \E dir \in {"SELL", "BUY"}, c \in M5Candles, p \in CalcPrices, ms \in CalcMinStops,
       strict \in BOOLEAN :
        /\ pc = "calc"
        /\ calc' = [fn |-> "stop_loss", direction |-> dir, candle |-> c, price |-> p,
                    min_stop |-> ms, raw_sl |-> RawSL(dir, c),
                    sl |-> StopLoss(dir, RawSL(dir, c), p, ms, strict)]
        /\ CalcFrame

ApplyCalculateLotSize ==
    \E entry \in CalcEntries, sl \in CalcStops, balance \in CalcBalances, up \in BOOLEAN :
        /\ pc = "calc"
        /\ calc' = [fn |-> "calculate_lot_size", entry |-> entry, sl |-> sl,
                    balance |-> balance, lot |-> CalculateLotSize(entry, sl, balance, up)]
        /\ CalcFrame

ApplyLotSize ==
    \E balance \in CalcBalances, risk \in {Abs(e - s) : e \in CalcEntries, s \in CalcStops},
       dust \in BOOLEAN, cs \in {1, 100} :
        /\ pc = "calc"
        /\ calc' = [fn |-> "lot_size", balance |-> balance, risk |-> risk,
                    risk_positive |-> RiskPositive(risk, dust), contract_size |-> cs,
                    lot_size |-> LotSize(balance, risk, dust, cs)]
        /\ CalcFrame

\* hourly candles as simple mode reads them: the range is the last closed one
SimpleH1Windows == {<< a, b, r >> : a \in RangeCandles, b \in RangeCandles, r \in RangeCandles}
\* entry candles that break a bound of those ranges and close back inside, and one that
\* does not
LocatorCandles ==
    {[open |-> 300, high |-> 400, low |-> 200, close |-> 200],
     [open |-> 200, high |-> 300, low |-> 100, close |-> 300],
     [open |-> 200, high |-> 200, low |-> 200, close |-> 200]}
LocatorWindows == {Stamp(cs, 1) : cs \in [1..M5Count -> LocatorCandles]}

\* lines 171-206 with USE_POWER_OF_THREE = False, for either value of USE_ORDER_BLOCK
ApplySimpleMode ==
    \E w \in SimpleH1Windows, df \in LocatorWindows, use_order_block \in BOOLEAN :
        LET dir == DetectorIn(FALSE, w)
            hi == RangeCandleIn(FALSE, w).high
            lo == RangeCandleIn(FALSE, w).low
        IN /\ pc = "calc"
           /\ calc' = [fn |-> "simple_mode", use_order_block |-> use_order_block,
                       crt_high |-> hi, crt_low |-> lo, df |-> df, direction |-> dir,
                       entry_candle |-> FindEntryIn(use_order_block, df, dir, hi, lo)]
           /\ CalcFrame

\* lines 194-202: the scan of the entry window, USE_ORDER_BLOCK = False
ApplyScan ==
    \E dir \in {"SELL", "BUY"}, r \in RangeCandles, df \in LocatorWindows :
        /\ pc = "calc"
        /\ calc' = [fn |-> "scan", direction |-> dir, crt_high |-> r.high,
                    crt_low |-> r.low, df |-> df,
                    entry_candle |-> FindEntryIn(FALSE, df, dir, r.high, r.low)]
        /\ CalcFrame

\* entry windows for the order-block search
OrderBlockWindows == {Stamp(cs, 1) : cs \in [1..M5Count -> M5Candles]}

\* find_order_block and lines 185-192, USE_ORDER_BLOCK = True
ApplyOrderBlock ==
    \E dir \in {"SELL", "BUY"}, df \in OrderBlockWindows :
        /\ pc = "calc"
        /\ calc' = [fn |-> "order_block", direction |-> dir, df |-> df,
                    order_block |-> FindOrderBlock(df, dir),
                    entry_candle |-> FindEntryIn(TRUE, df, dir, None, None)]
        /\ CalcFrame

NextCalc ==
    \/ ApplyStopLoss
    \/ ApplyCalculateLotSize
    \/ ApplyLotSize
    \/ ApplySimpleMode
    \/ ApplyScan
    \/ ApplyOrderBlock

SpecCalc == InitCalc /\ [][NextCalc]_vars

(***************************************************************************)
(* Properties.                                                             *)
(***************************************************************************)
\* the signal of a cycle whose hourly candles are in h1
Signal == IF pc = "m5" THEN direction ELSE "NONE"
\* a lot of n/d hundredths is within one hundredth of the ideal size nn/dd hundredths,
\* i.e. lot * risk * contract_size is within 0.01 * risk * contract_size of the risked amount
WithinOneStep(n, d, nn, dd) == Abs(n * dd - nn * d) <= d * dd

\* C2: a raw stop closer to the entry than the minimum distance is pushed to exactly
\* the minimum distance; a raw stop at least that far away is left unchanged.
C2_ClampToExactlyMinDistance ==
    calc.fn = "stop_loss" =>
        IF Abs(calc.price - calc.raw_sl) < calc.min_stop
        THEN Abs(calc.price - calc.sl) = calc.min_stop
        ELSE calc.sl = calc.raw_sl

\* C3 as claimed: for every balance, entry, stop and contract size the lot is at least
\* 0.01 and lot * |entry - stop| * contract_size is within one 0.01-lot step of 1% of
\* the balance.
C3_LotWithinOneStepAlways ==
    /\ calc.fn = "calculate_lot_size" =>
           /\ calc.lot >= MIN_LOT
           /\ WithinOneStep(calc.lot, 1, calc.balance * RISK_DIVISOR,
                            Abs(calc.entry - calc.sl) * LOT_CONTRACT_SIZE)
    /\ calc.fn = "lot_size" =>
           /\ calc.lot_size[1] >= MIN_LOT * calc.lot_size[2]
           /\ WithinOneStep(calc.lot_size[1], calc.lot_size[2], calc.balance * RISK_DIVISOR,
                            calc.risk * calc.contract_size)

\* C3 amended: the same whenever the computed |entry - stop| is above 0, be it by a
\* rounding error only (the lot is then the risked amount over that error); with
\* |entry - stop| = 0 the lot is the minimum lot 0.01.
C3_LotWithinOneStep ==
    /\ calc.fn = "calculate_lot_size" =>
           /\ calc.lot >= MIN_LOT
           /\ calc.entry # calc.sl =>
                  WithinOneStep(calc.lot, 1, calc.balance * RISK_DIVISOR,
                                Abs(calc.entry - calc.sl) * LOT_CONTRACT_SIZE)
           /\ calc.entry = calc.sl => calc.lot = MIN_LOT
    /\ calc.fn = "lot_size" =>
           /\ calc.lot_size[1] >= MIN_LOT * calc.lot_size[2]
           /\ calc.risk > 0 =>
                  WithinOneStep(calc.lot_size[1], calc.lot_size[2],
                                calc.balance * RISK_DIVISOR, calc.risk * calc.contract_size)
           /\ (calc.risk = 0 /\ calc.risk_positive /\ calc.balance > 0) =>
                  calc.lot_size = << calc.balance * RISK_DIVISOR, 0 >>
           /\ (calc.risk = 0 /\ (~calc.risk_positive \/ calc.balance = 0)) =>
                  calc.lot_size = << MIN_LOT, 1 >>

\* a lot above the minimum computed by calculate_lot_size for a non-zero risk
C3_Witness ==
    /\ calc.fn = "calculate_lot_size"
    /\ calc.entry # calc.sl
    /\ calc.lot > MIN_LOT

\* C7: a cycle whose larger reward:risk ratio is below 2.0 at the gate of line 241
\* submits no order and is skipped; a computed |price - sl| of 0 makes both ratios 0,
\* without a division, and the cycle is skipped.
C7_RewardRiskGate ==
    plan # NoPlan =>
        LET risk == Abs(plan.price - plan.sl)
            d1 == Abs(plan.price - plan.tp1)
            d2 == Abs(plan.price - plan.tp2)
            skipped == orders = << >> /\ outcome = "rr_low" /\ pc = "sleep"
        IN /\ (risk > 0 /\ d1 < MIN_RR * risk /\ d2 < MIN_RR * risk) => skipped
           /\ plan.rr_too_low => skipped
           /\ ~plan.risk_positive =>
                  /\ risk = 0
                  /\ plan.rr1 = << 0, 1 >> /\ plan.rr2 = << 0, 1 >>
                  /\ skipped
           /\ (plan.rr1[2] = 0 \/ plan.rr2[2] = 0) => plan.risk_positive

\* a cycle skipped at the gate with the stop exactly at the tick price, both ratios 0
C7_Witness ==
    /\ outcome = "rr_low"
    /\ plan # NoPlan
    /\ plan.price = plan.sl
    /\ ~plan.risk_positive
    /\ plan.rr1 = << 0, 1 >>
    /\ plan.price # plan.tp1

\* C8: an entry candle is taken only when its time is later than last_trade_time,
\* last_trade_time never goes back, and an order belongs to the candle last taken:
\* the trigger times of successive trades increase strictly.
C8_DuplicateSuppression ==
    /\ [][(pc = "m5" /\ pc' = "risk")
            => (entry_candle'.time > last_trade_time
                /\ last_trade_time' = entry_candle'.time)]_vars
    /\ [][last_trade_time' >= last_trade_time]_vars
    /\ [](orders # << >> => entry_candle.time = last_trade_time)

\* the candle of an earlier entry presented again after a trade, and rejected
C8_Witness ==
    /\ outcome = "duplicate"
    /\ entry_candle.time = last_trade_time
    /\ trades_today > 0

\* C9 as claimed: a high sweep with the confirm close inside the range gives SELL, and
\* a low sweep with the confirm close inside the range gives BUY.
C9_DirectionSymmetric ==
    h1 # NoH1 =>
        LET inside == h1[1].low < h1[3].close /\ h1[3].close < h1[1].high
        IN /\ (h1[2].high > h1[1].high /\ inside) => Signal = "SELL"
           /\ (h1[2].low < h1[1].low /\ inside) => Signal = "BUY"

\* C9 amended: a low sweep gives BUY when the sweep candle did not also take the high.
C9_DetectorDirection ==
    h1 # NoH1 =>
        LET inside == h1[1].low < h1[3].close /\ h1[3].close < h1[1].high
        IN /\ (h1[2].high > h1[1].high /\ inside) => Signal = "SELL"
           /\ (h1[2].low < h1[1].low /\ ~(h1[2].high > h1[1].high) /\ inside)
                  => Signal = "BUY"

\* a low sweep alone, confirmed, detected as BUY
C9_Witness ==
    /\ h1 # NoH1
    /\ h1[2].low < h1[1].low
    /\ h1[2].high <= h1[1].high
    /\ pc = "m5"
    /\ direction = "BUY"

\* C10: SELL iff confirmed and swept_high; BUY iff confirmed, swept_low and not
\* swept_high; NONE otherwise, and then the cycle ends without a pattern.
C10_SignalFunction ==
    h1 # NoH1 =>
        LET swept_high == h1[2].high > h1[1].high
            swept_low == h1[2].low < h1[1].low
            confirmed == h1[1].low < h1[3].close /\ h1[3].close < h1[1].high
        IN /\ Signal = "SELL" <=> (confirmed /\ swept_high)
           /\ Signal = "BUY" <=> (confirmed /\ swept_low /\ ~swept_high)
           /\ Signal = "NONE" <=> ~((swept_high \/ swept_low) /\ confirmed)
           /\ Signal = "NONE" => (outcome = "no_pattern" /\ pc = "sleep")

\* both bounds swept and confirmed: SELL
C10_Witness ==
    /\ h1 # NoH1
    /\ h1[2].high > h1[1].high
    /\ h1[2].low < h1[1].low
    /\ pc = "m5"
    /\ direction = "SELL"

\* C11 as claimed: a cycle that got fewer than three hourly candles is skipped with no
\* signal and no order, and the count, the last-trade day and the last entry time are
\* what they were before the cycle.
C11_NoDataNoChange ==
    outcome = "no_h1" =>
        /\ pc = "sleep"
        /\ direction = "None"
        /\ orders = << >>
        /\ ~cycle_start.day_reset
        /\ trades_today = cycle_start.trades_today
        /\ last_trade_time = cycle_start.last_trade_time

\* C11 amended: the same, except that the daily reset at the head of the cycle has
\* set the last-trade day to the reported day and, on a new day, the count to 0.
C11_NoDataSkipped ==
    /\ [][(pc = "loop" /\ pc' = "h1") =>
            /\ last_trade_day' = broker_day'
            /\ last_trade_day' = last_trade_day => trades_today' = trades_today
            /\ last_trade_day' # last_trade_day => trades_today' = 0]_vars
    /\ [](outcome = "no_h1" =>
            /\ pc = "sleep"
            /\ direction = "None"
            /\ orders = << >>
            /\ last_trade_time = cycle_start.last_trade_time
            /\ last_trade_day = broker_day
            /\ trades_today = cycle_start.trades_today)

\* a cycle without hourly candles on the day of an earlier trade
C11_Witness ==
    /\ outcome = "no_h1"
    /\ trades_today > 0
    /\ ~cycle_start.day_reset

\* C12: no stop modification is issued while the TP1 leg is reported open; the poll
\* that finds it absent issues exactly one, on the TP2 leg's ticket, with the stop at
\* the entry price of the trade, and only after both legs were opened.
C12_BreakevenPromotion ==
    /\ [](pc = "watch" => modifications = << >>)
    /\ [][(pc = "watch" /\ pc' # "watch") => Len(modifications') = 1]_vars
    /\ [](modifications # << >> =>
            /\ Len(modifications) = 1
            /\ modifications[1].position = TICKET_TP2
            /\ results = << "DONE", "DONE" >>
            /\ modifications[1].sl = orders[1].price
            /\ modifications[1].sl = orders[2].price)

\* the stop of the TP2 leg moved to the entry price
C12_Witness ==
    /\ outcome = "breakeven"
    /\ Len(modifications) = 1
    /\ modifications[1].sl = orders[2].price
    /\ modifications[1].sl # orders[2].sl

\* C13: the watch is entered only when both legs were submitted successfully, and
\* while it is active no cycle starts, no order is submitted and nothing is counted.
C13_WatchSerialized ==
    /\ [](pc = "watch" => (Len(orders) = 2 /\ results = << "DONE", "DONE" >>))
    /\ [][(pc # "watch" /\ pc' = "watch") => (pc = "risk" /\ results' = << "DONE", "DONE" >>)]_vars
    /\ [][pc = "watch" =>
            /\ pc' \in {"watch", "sleep"}
            /\ orders' = orders
            /\ results' = results
            /\ trades_today' = trades_today
            /\ last_trade_time' = last_trade_time
            /\ cycle_start' = cycle_start]_vars

\* the script waiting in the watch loop
C13_Witness ==
    /\ pc = "watch"
    /\ results = << "DONE", "DONE" >>
    /\ trades_today > 0

\* C14: every cycle whose entry signal passed the cap, session, news and duplicate
\* checks either is skipped for its reward:risk or submits exactly two orders in the
\* signal's direction, tagged 123456 and 123457, with one price and one stop and the
\* targets TP1 and TP2; from the first such cycle after start-up.
C14_AcceptedSignalSubmits ==
    [][pc = "risk" =>
         \/ (pc' = "sleep" /\ outcome' = "rr_low" /\ orders' = << >>)
         \/ /\ Len(orders') = 2
            /\ orders'[1].type = direction /\ orders'[2].type = direction
            /\ orders'[1].magic = MAGIC_TP1 /\ orders'[2].magic = MAGIC_TP2
            /\ orders'[1].price = orders'[2].price
            /\ orders'[1].sl = orders'[2].sl
            /\ orders'[1].tp = (crt_high + crt_low) \div 2
            /\ orders'[2].tp = (IF direction = "SELL" THEN crt_low ELSE crt_high)]_vars

\* C16: a cycle in which a fetch answered nothing is skipped, and the script sleeps and
\* goes on: the tick of get_broker_time, the hourly candles, the entry candles, the
\* tick of the entry price ("AttributeError" is how a cycle ends when symbol_info_tick
\* answered None at line 218/227).
C16_DataUnavailableNotFatal ==
    /\ cycle_start.no_tick => pc = "sleep"
    /\ outcome \in {"no_h1", "no_m5", "AttributeError"} => pc = "sleep"

\* C19: the price read to clamp the stop is never unset, and it is the tick price
\* that the plan uses as order price and in the reward:risk ratios.
C19_PlanUsesCycleTick ==
    /\ pc = "risk" => price # Unbound
    /\ plan # NoPlan => plan.price_read = plan.price

\* the ways a gate rejects a cycle
Rejections == {"cap", "session", "news", "no_pattern", "no_entry", "duplicate", "rr_low"}

\* C15: a rejected cycle leaves the script sleeping, never ended, and the script then
\* starts another cycle.
C15_RejectionsNotFatal ==
    /\ [](outcome \in Rejections => pc = "sleep")
    /\ [][outcome' \in Rejections => pc' = "sleep"]_vars
    /\ (outcome \in Rejections) ~> (pc = "loop")

\* a cycle rejected for want of an entry candle, after a trade
C15_Witness ==
    /\ outcome = "no_entry"
    /\ pc = "sleep"
    /\ trades_today > 0

\* C18 as claimed: a cycle rejected for its hour leaves the count, the last-trade day
\* and the last entry time as they were and submits no order.
C18_OffSessionNoChange ==
    [][(pc = "loop" /\ outcome' = "session") =>
         /\ trades_today' = trades_today
         /\ last_trade_day' = last_trade_day
         /\ last_trade_time' = last_trade_time
         /\ orders' = << >>]_vars

\* C18 amended: such a cycle leaves the last entry time, submits no order, and changes
\* the count and the last-trade day only by the daily reset at its head.
C18_OffSessionOnlyReset ==
    [][(pc = "loop" /\ outcome' = "session") =>
         /\ pc' = "sleep"
         /\ last_trade_time' = last_trade_time
         /\ orders' = << >>
         /\ last_trade_day' = broker_day'
         /\ last_trade_day' = last_trade_day => trades_today' = trades_today
         /\ last_trade_day' # last_trade_day => trades_today' = 0]_vars

\* a cycle rejected for its hour on the day of an earlier trade
C18_Witness ==
    /\ outcome = "session"
    /\ trades_today > 0
    /\ ~cycle_start.day_reset
    /\ last_trade_time # None

\* C20: in simple mode the detector assigns no direction, and whenever a candle of the
\* entry window breaks a bound of the range and closes back inside, the locator gives
\* an entry candle with a direction, BUY or SELL.
C20_SimpleModeReactiveDirection ==
    calc.fn = "simple_mode" =>
        LET breaks(c) == \/ (c.high > calc.crt_high /\ c.close < calc.crt_high)
                         \/ (c.low < calc.crt_low /\ c.close > calc.crt_low)
        IN (\E i \in 1..Len(calc.df) : breaks(calc.df[i])) =>
               (calc.entry_candle # NoCandle /\ calc.direction \in {"BUY", "SELL"})

\* C21: without order blocks the entry candle is the first candle of the whole window,
\* in time order, whose high (SELL) or low (BUY) is beyond the range bound and whose
\* close is back inside it; there is none when no candle of the window qualifies.
C21_ScanFirstOfWindow ==
    calc.fn = "scan" =>
        LET qualifies(c) ==
                IF calc.direction = "SELL"
                THEN c.high > calc.crt_high /\ c.close < calc.crt_high
                ELSE c.low < calc.crt_low /\ c.close > calc.crt_low
            rows == {i \in 1..Len(calc.df) : qualifies(calc.df[i])}
        IN IF rows = {}
           THEN calc.entry_candle = NoCandle
           ELSE \E i \in rows : (\A j \in rows : i <= j) /\ calc.entry_candle = calc.df[i]

\* C22: the order block is the latest candle of the window that closed below its open
\* (BUY) or above it (SELL), never one that closed at its open, and none when there is
\* no such candle; the latest candle is the entry exactly when an order block exists
\* and latest.low <= order_block.low (BUY) or latest.high >= order_block.high (SELL).
C22_OrderBlockEntry ==
    calc.fn = "order_block" =>
        LET opposes(c) == IF calc.direction = "BUY" THEN c.close < c.open ELSE c.close > c.open
            rows == {i \in 1..Len(calc.df) : opposes(calc.df[i])}
            latest == calc.df[Len(calc.df)]
        IN IF rows = {}
           THEN calc.order_block = NoCandle /\ calc.entry_candle = NoCandle
           ELSE \E i \in rows :
                    /\ \A j \in rows : j <= i
                    /\ calc.order_block = calc.df[i]
                    /\ calc.order_block.close # calc.order_block.open
                    /\ IF \/ calc.direction = "BUY" /\ latest.low <= calc.df[i].low
                          \/ calc.direction = "SELL" /\ latest.high >= calc.df[i].high
                       THEN calc.entry_candle = latest
                       ELSE calc.entry_candle = NoCandle

\* an entry on the latest candle against an older order block, behind a flat candle
C22_Witness ==
    /\ calc.fn = "order_block"
    /\ calc.entry_candle # NoCandle
    /\ calc.order_block.time < calc.entry_candle.time
    /\ calc.entry_candle.close = calc.entry_candle.open

\* C29: the order block is strictly older than the candle that triggers the entry.
C29_OrderBlockOlderThanTrigger ==
    (calc.fn = "order_block" /\ calc.entry_candle # NoCandle) =>
        calc.order_block.time < calc.entry_candle.time

\* C23: a cycle whose signal is rejected for its reward:risk leaves the last entry time
\* as the cycle found it; the time advances only in a cycle that submits orders.
C23_EntryTimeOnlyOnSubmission ==
    /\ outcome = "rr_low" => last_trade_time = cycle_start.last_trade_time
    /\ (cycle_start # NoCycle /\ last_trade_time # cycle_start.last_trade_time) =>
           (pc = "risk" \/ orders # << >>)

====
